---------------------------- MODULE Spec2Model ----------------------------
(***************************************************************************)
(* Model of the graphrag question-answering service:                       *)
(*   - graphrag/agent.py    GraphAgentWithMemory (the langgraph loop        *)
(*                          agent -> tools -> agent with a Postgres         *)
(*                          checkpointer keyed by thread_id = session_id),  *)
(*   - graphrag/tools.py    Neo4jToolkit (the tools the loop dispatches),   *)
(*   - graphrag/service.py  Neo4jQueryService.query (Ask): invoke, then     *)
(*                          _save_to_history, then _format_result,          *)
(*   - graphrag/data_access.py  the conversations / messages tables.        *)
(*                                                                         *)
(* The language model, the graph store, the vector store and the          *)
(* relational store are the environment: each of their answers is drawn    *)
(* from a small set by the action that consumes it.                        *)
(***************************************************************************)
EXTENDS Integers, Sequences, FiniteSets, TLC

\* ------------------------------------------------------------------ bounds
\* Number of Ask calls (Neo4jQueryService.query) in one behaviour.
MaxAsks == 2
\* Largest configured AppConfig.max_iterations explored (0 .. MaxCeiling).
MaxCeiling == 2
\* Largest max_iterations explored where one session is asked repeatedly.
MaxTurns == 3
\* Largest number of hits collection.search answers with (top_k).
MaxHits == 3
\* Largest value of the conversations.id sequence at which the repository's
\* create_conversation is still called on its own.
MaxSerial == 2
\* Largest number of rows beyond the preview count a graph query returns.
MaxExtra == 2

\* ------------------------------------------------------------------ inputs
Questions == {"q1", "q2"}
\* session ids a caller supplies, and the ids str(uuid.uuid4())[:8] yields
SessionIds == {"s1"}
GenIds == {"u1"}
Threads == SessionIds \cup GenIds
\* session_id: str = None
None == "None"

\* Outcomes of one access to the graph store / the vector store.
GraphOutcomes == {"rows", "many_rows", "empty", "fail"}
VectorOutcomes == {"hits", "none", "fail"}

\* ---------------------------------------------------------------- messages
NoId == <<0, 0>>

HumanMessage(content) ==
  [type |-> "human", content |-> content, tool_calls |-> <<>>, tool_call_id |-> NoId]

AIMessage(content, tool_calls) ==
  [type |-> "ai", content |-> content, tool_calls |-> tool_calls, tool_call_id |-> NoId]

ToolMessage(content, tool_call_id) ==
  [type |-> "tool", content |-> content, tool_calls |-> <<>>, tool_call_id |-> tool_call_id]

Last(s) == s[Len(s)]

\* ------------------------------------------------------------------- tools
\* A call either returns a value or raises.
Return(v) == [raised |-> FALSE, value |-> v]
Raise == [raised |-> TRUE, value |-> "exception"]

\* Neo4jRepository.query: the driver's failure is re-raised as RuntimeError;
\* a falsy result becomes [].
repo_query(g) ==
  CASE g = "fail"      -> Raise
    [] g = "empty"     -> Return(<<>>)
    [] g = "many_rows" -> Return(<<"row", "row">>)
    [] OTHER           -> Return(<<"row">>)

\* Neo4jRepository.get_schema: no handler of its own.
repo_get_schema(g) == IF g = "fail" THEN Raise ELSE Return("schema")

\* try: body / except Exception: return text
TryExcept(body, text) == IF body.raised THEN Return(text) ELSE body

\* Scores and thresholds are exact fractions <<numerator, denominator>> with
\* a positive denominator; hit.distance is counted in tenths.
Fraction(n, d) == IF d < 0 THEN <<-n, -d>> ELSE <<n, d>>
AtLeast(a, b) == a[1] * b[2] >= b[1] * a[2]

\* Faulty variant of the conversion: the raw distance is passed on as score.
similarity_raw(metric_type, distance) == Return(Fraction(distance, 10))

\* The conversion of hit.distance to a similarity (vector_store.py:131-134);
\* 1 / (1 + hit.distance) raises ZeroDivisionError at distance -1.
similarity(metric_type, distance) ==
  IF metric_type = "COSINE"
    THEN Return(Fraction(20 - distance, 20))
    ELSE IF 10 + distance = 0 THEN Raise ELSE Return(Fraction(10, 10 + distance))

\* if similarity >= score_threshold
keep(score, score_threshold) == AtLeast(score, score_threshold)

\* The loop over the store's hits: those that pass the threshold, converted,
\* in the store's order.
RECURSIVE formatted_results(_, _, _)
formatted_results(metric_type, hits, score_threshold) ==
  IF hits = <<>> THEN Return(<<>>)
  ELSE LET hit == Head(hits)
           score == similarity(metric_type, hit.distance)
           rest == formatted_results(metric_type, Tail(hits), score_threshold)
       IN IF score.raised \/ rest.raised THEN Raise
          ELSE IF keep(score.value, score_threshold)
            THEN Return(<<[text |-> hit.text, similarity |-> score.value,
                           metadata |-> hit.metadata]>> \o rest.value)
            ELSE rest

\* Faulty variant of similarity_search: a failure of the embedding or of the
\* search is not caught.
similarity_search_on_uncaught(metric_type, found, score_threshold) ==
  IF found.raised THEN Raise
  ELSE formatted_results(metric_type, found.value, score_threshold)

\* MilvusVectorStore.similarity_search on what collection.search answered
\* (`found`: the hits, or an exception of the embedding or of the search):
\* every failure is caught and yields [].
similarity_search_on(metric_type, found, score_threshold) ==
  TryExcept(IF found.raised THEN Raise
            ELSE formatted_results(metric_type, found.value, score_threshold),
            <<>>)

\* MilvusConfig.metric_type and the default of score_threshold
DefaultMetric == "COSINE"
DefaultThreshold == <<7, 10>>

\* collection.search under the vector store's outcome v
collection_search(v) ==
  CASE v = "hits" -> Return(<<[text |-> "t", distance |-> 2, metadata |-> [node_id |-> 1]]>>)
    [] v = "none" -> Return(<<>>)
    [] OTHER      -> Raise

\* similarity_search(query, top_k=top_k), as the tools call it
similarity_search(v) ==
  similarity_search_on(DefaultMetric, collection_search(v), DefaultThreshold)

\* result[:50]
PreviewCount == 50

\* Faulty variant of the preview: every row is listed.
preview_rows_all(result) == result

preview_rows(result) ==
  SubSeq(result, 1, IF Len(result) < PreviewCount THEN Len(result) ELSE PreviewCount)

\* The neo4j_cypher_query tool on what repo.query did (`found`: the rows, or
\* the exception it raised): which of its three texts it returns, and the
\* rows that text lists.
neo4j_cypher_query_on(found) ==
  TryExcept(
    IF found.raised THEN Raise
    ELSE IF found.value = <<>> THEN Return([text |-> "no_results", rows |-> <<>>])
    ELSE Return([text |-> "rows", rows |-> preview_rows(found.value)]),
    [text |-> "query_failed", rows |-> <<>>])

neo4j_cypher_query(g) ==
  LET out == neo4j_cypher_query_on(repo_query(g)).value
  IN Return(IF Len(out.rows) > 1 THEN "rows_long" ELSE out.text)

neo4j_natural_language_query(g) ==
  TryExcept(IF g = "fail" THEN Raise ELSE Return("nl_answer"), "query_failed")

get_neo4j_schema(g) == TryExcept(repo_get_schema(g), "schema_failed")

semantic_search(v) ==
  TryExcept(
    LET results == similarity_search(v) IN
      IF results.raised THEN Raise
      ELSE IF results.value = <<>> THEN Return("not_found")
      ELSE Return("semantic_hits"),
    "semantic_search_failed")

\* for _, _, meta in semantic_results: if "node_id" in meta: append
RECURSIVE entity_ids_of(_)
entity_ids_of(semantic_results) ==
  IF semantic_results = <<>> THEN <<>>
  ELSE LET meta == Head(semantic_results).metadata
       IN (IF "node_id" \in DOMAIN meta THEN <<meta.node_id>> ELSE <<>>)
            \o entity_ids_of(Tail(semantic_results))

\* Faulty variant of the graph step: the neighbourhood is queried even when
\* there is no entity id.
graph_step_always(entity_ids, g) == [queried |-> TRUE, result |-> repo_query(g)]

\* graph_results = []; if entity_ids: graph_results = neo4j_repo.query(...)
graph_step(entity_ids, g) ==
  IF entity_ids # <<>>
    THEN [queried |-> TRUE, result |-> repo_query(g)]
    ELSE [queried |-> FALSE, result |-> Return(<<>>)]

\* The hybrid_search tool on what collection.search answered (`found`) and
\* the graph store's outcome g: the semantic results, whether the graph was
\* queried, the graph results, and the text the tool returns.
hybrid_search_on(found, g) ==
  LET sem == similarity_search_on(DefaultMetric, found, DefaultThreshold)
      semantic_results == IF sem.raised THEN <<>> ELSE sem.value
      entity_ids == entity_ids_of(semantic_results)
      step == IF sem.raised THEN [queried |-> FALSE, result |-> Raise]
              ELSE graph_step(entity_ids, g)
      text == TryExcept(
                IF step.result.raised THEN Raise
                ELSE IF semantic_results = <<>> /\ step.result.value = <<>>
                  THEN Return("hybrid_empty")
                ELSE IF step.result.value # <<>> THEN Return("hybrid_semantic_and_graph")
                ELSE Return("hybrid_semantic"),
                "hybrid_search_failed")
  IN [semantic_results |-> semantic_results,
      entity_ids |-> entity_ids,
      queried |-> step.queried,
      graph_results |-> IF step.result.raised THEN <<>> ELSE step.result.value,
      output |-> text.value]

hybrid_search(g, v) == Return(hybrid_search_on(collection_search(v), g).output)

\* Neo4jToolkit.get_tools: the names registered with the ToolNode.
get_tools(vs) ==
  {"neo4j_cypher_query", "neo4j_natural_language_query", "get_neo4j_schema"}
    \cup (IF vs THEN {"semantic_search", "hybrid_search"} ELSE {})

\* The registered tool of that name, run against the stores' outcomes.
invoke_tool(name, g, v) ==
  CASE name = "neo4j_cypher_query"           -> neo4j_cypher_query(g)
    [] name = "neo4j_natural_language_query" -> neo4j_natural_language_query(g)
    [] name = "get_neo4j_schema"             -> get_neo4j_schema(g)
    [] name = "semantic_search"              -> semantic_search(v)
    [] OTHER                                 -> hybrid_search(g, v)


\* ------------------------------------------------------------------- state
VARIABLES
  max_iterations,   \* GraphAgentWithMemory.max_iterations (AppConfig.max_iterations)
  vector_store,     \* Neo4jQueryService.vector_store is not None (enable_embedding)
  memory,           \* PostgresSaver: thread_id -> checkpointed AgentState
  state,            \* AgentState of the graph run in progress
  pc,               \* "idle" | "agent" | "tools" | "end" | "raised"
  session_id,       \* query's local session_id of the Ask in progress / last Ask
  conversations,    \* table conversations: rows [id, session_id]
  conv_seq,         \* the SERIAL sequence of conversations.id
  messages_table,   \* table messages, in insertion order
  clock,            \* CURRENT_TIMESTAMP as read by the latest insert
  saveReport,       \* the latest _save_to_history: failed statement, warning printed
  bundle,           \* what the last completed Ask returned (_format_result)
  terminationReason,\* which return of _should_continue ended the run
  asks,             \* number of Ask calls started
  askQuestion,      \* the question argument of the Ask in progress / last Ask
  askSession,       \* its session_id argument (None when omitted)
  llmInput,         \* the messages passed to the latest llm_with_tools.invoke
  modelCalls,       \* model invocations of the run in progress / last run
  toolDispatches,   \* executions of the tools node in that run
  allToolTurns,     \* every model response of that run carried tool calls
  lastDispatch,     \* the latest tools-node batch: request, outcome, result
  lastResult,       \* thread_id -> result["messages"] of its last finished invoke
  priorResult,      \* lastResult of the thread when the Ask in progress began
  turns,            \* the model's answers of that run, in the order given
  callArgs,         \* arguments of a function called on its own (op: which one)
  callResult,       \* done: it has returned; value: what it returned
  other             \* a second caller's query(): its local variables while
                    \* the first one runs

vars == <<max_iterations, vector_store, memory, state, pc, session_id,
          conversations, conv_seq, messages_table, clock, saveReport, bundle,
          terminationReason,
          asks, askQuestion, askSession, llmInput, modelCalls, toolDispatches,
          allToolTurns, lastDispatch, lastResult, priorResult, turns,
          callArgs, callResult, other>>

config == <<max_iterations, vector_store>>
store == <<conversations, conv_seq, messages_table, clock, saveReport>>
\* The relational store as one value: the conversations rows, the SERIAL
\* sequence of conversations.id, the messages rows in insertion order, and
\* the reading of CURRENT_TIMESTAMP at the latest insert.
DB(convs, seq, table, at) ==
  [conversations |-> convs, conv_seq |-> seq, messages_table |-> table, clock |-> at]

\* the relational store as the repository's methods see it
db_now == DB(conversations, conv_seq, messages_table, clock)
direct == <<callArgs, callResult>>

\* The local variables of a query() call: they belong to the caller, the
\* checkpointer and the relational store are shared.
local == [pc |-> pc, state |-> state, session_id |-> session_id,
          askQuestion |-> askQuestion, askSession |-> askSession,
          terminationReason |-> terminationReason, llmInput |-> llmInput,
          modelCalls |-> modelCalls, toolDispatches |-> toolDispatches,
          allToolTurns |-> allToolTurns, lastDispatch |-> lastDispatch,
          priorResult |-> priorResult, turns |-> turns]

\* ------------------------------------------------------------ agent graph
\* class AgentState: the channel values of a thread with no checkpoint yet.
AgentState == [messages |-> <<>>, iteration_count |-> 0, session_id |-> ""]

\* Faulty variant of the state update: messages has no reducer and is
\* overwritten like the other keys.
apply_update_overwrite(st, upd) ==
  [k \in DOMAIN st |-> IF k \in DOMAIN upd THEN upd[k] ELSE st[k]]

\* How the graph folds a node's (or the input's) partial update into the
\* state: messages is Annotated[..., operator.add], the other keys have no
\* reducer and are overwritten; keys the update lacks keep their value.
apply_update(st, upd) ==
  [k \in DOMAIN st |->
     IF k \in DOMAIN upd
       THEN IF k = "messages" THEN st[k] \o upd[k] ELSE upd[k]
       ELSE st[k]]

\* Faulty variant of _agent_node: the count is passed on without the increment.
agent_node_uncounted(st, response) ==
  [messages |-> <<response>>, iteration_count |-> st.iteration_count]

\* GraphAgentWithMemory._agent_node, given the model's response.
agent_node(st, response) ==
  [messages |-> <<response>>, iteration_count |-> st.iteration_count + 1]

\* Faulty variant of _should_continue: the ceiling test is > instead of >=.
should_continue_late(st, ceiling) ==
  LET last_message == Last(st.messages)
      iteration == st.iteration_count
  IN IF iteration > ceiling
       THEN [edge |-> "end", reason |-> "iteration_ceiling"]
       ELSE IF last_message.tool_calls # <<>>
         THEN [edge |-> "tools", reason |-> "none"]
         ELSE [edge |-> "end", reason |-> "no_tool_call"]

\* Faulty variant of _should_continue: the ceiling is taken one turn early.
should_continue_early(st, ceiling) ==
  LET last_message == Last(st.messages)
      iteration == st.iteration_count
  IN IF iteration >= ceiling - 1
       THEN [edge |-> "end", reason |-> "iteration_ceiling"]
       ELSE IF last_message.tool_calls # <<>>
         THEN [edge |-> "tools", reason |-> "none"]
         ELSE [edge |-> "end", reason |-> "no_tool_call"]

\* Faulty variant of _should_continue: the tool calls are looked at before
\* the ceiling.
should_continue_tools_first(st, ceiling) ==
  LET last_message == Last(st.messages)
      iteration == st.iteration_count
  IN IF last_message.tool_calls # <<>>
       THEN [edge |-> "tools", reason |-> "none"]
       ELSE IF iteration >= ceiling
         THEN [edge |-> "end", reason |-> "iteration_ceiling"]
         ELSE [edge |-> "end", reason |-> "no_tool_call"]

\* GraphAgentWithMemory._should_continue: the edge taken, and which of its
\* returns took it (line 136: the ceiling; line 141: no tool call).
should_continue(st, ceiling) ==
  LET last_message == Last(st.messages)
      iteration == st.iteration_count
  IN IF iteration >= ceiling
       THEN [edge |-> "end", reason |-> "iteration_ceiling"]
       ELSE IF last_message.tool_calls # <<>>
         THEN [edge |-> "tools", reason |-> "none"]
         ELSE [edge |-> "end", reason |-> "no_tool_call"]

\* Faulty variant of the tool lookup: an unregistered name raises.
run_one_strict(call, tools, g, v) ==
  IF call.name \notin tools THEN Raise ELSE invoke_tool(call.name, g, v)

\* ToolNode(self.tools) on one tool call: an unregistered name is answered
\* with an error ToolMessage; a registered tool is run.
run_one(call, tools, g, v) ==
  IF call.name \notin tools
    THEN Return("Error: " \o call.name \o " is not a valid tool")
    ELSE invoke_tool(call.name, g, v)

\* Faulty variant of the tools node: the results come back in reverse order.
tool_node_reversed(st, tools, g, v) ==
  LET calls == Last(st.messages).tool_calls
      k == Len(calls)
      outs == [j \in 1..k |-> run_one(calls[j], tools, g, v)]
  IN [raised |-> \E j \in 1..k : outs[j].raised,
      messages |-> [j \in 1..k |->
                      ToolMessage(outs[k + 1 - j].value, calls[k + 1 - j].id)]]

\* ToolNode(self.tools): one ToolMessage per tool call of the last message,
\* in request order, each carrying its request's id.
tool_node(st, tools, g, v) ==
  LET calls == Last(st.messages).tool_calls
      outs == [j \in 1..Len(calls) |-> run_one(calls[j], tools, g, v)]
  IN [raised |-> \E j \in 1..Len(calls) : outs[j].raised,
      messages |-> [j \in 1..Len(calls) |-> ToolMessage(outs[j].value, calls[j].id)]]

\* Faulty variant of invoke: the input carries no iteration_count, so the
\* count of the checkpoint stays.
invoke_keep_count(question, sid, checkpoint) ==
  apply_update(checkpoint, [messages |-> <<HumanMessage(question)>>, session_id |-> sid])

\* GraphAgentWithMemory.invoke: the input is folded into the thread's
\* checkpointed state.
invoke(question, sid, checkpoint) ==
  apply_update(checkpoint,
    [messages |-> <<HumanMessage(question)>>, iteration_count |-> 0, session_id |-> sid])

\* The model's response to `messages`: content and requested tool names are
\* the model's choice; each request gets an id unique in the thread.
Response(r, messages) ==
  AIMessage(r.content,
    [j \in 1..Len(r.calls) |->
       [name |-> r.calls[j], args |-> "args", id |-> <<Len(messages) + 1, j>>]])

\* ----------------------------------------------------------------- service
\* Faulty variant of get_conversation_id: the WHERE clause is missing.
get_conversation_id_any(db, sid) ==
  IF db.conversations = {} THEN 0 ELSE (CHOOSE c \in db.conversations : TRUE).id

\* PostgreSQLRepository.get_conversation_id; 0 stands for None.
get_conversation_id(db, sid) ==
  LET rows == {c \in db.conversations : c.session_id = sid}
  IN IF rows = {} THEN 0 ELSE (CHOOSE c \in rows : TRUE).id

\* Faulty variant of create_conversation: a plain INSERT into a table whose
\* session_id is not unique.
create_conversation_insert(db, sid) ==
  [db |-> [db EXCEPT !.conversations = @ \cup {[id |-> db.conv_seq + 1, session_id |-> sid]},
                     !.conv_seq = @ + 1],
   id |-> db.conv_seq + 1]

\* PostgreSQLRepository.create_conversation: INSERT ... ON CONFLICT
\* (session_id) DO UPDATE ... RETURNING id.  The sequence advances even when
\* the row exists.
create_conversation(db, sid) ==
  LET found == get_conversation_id(db, sid)
  IN IF found # 0
       THEN [db |-> [db EXCEPT !.conv_seq = @ + 1], id |-> found]
       ELSE [db |-> [db EXCEPT !.conversations =
                                  @ \cup {[id |-> db.conv_seq + 1, session_id |-> sid]},
                               !.conv_seq = @ + 1],
             id |-> db.conv_seq + 1]

\* Faulty variant of save_message: the role written is always "user".
save_message_as_user(db, conversation_id, role, content) ==
  [db EXCEPT !.messages_table =
               Append(@, [conversation_id |-> conversation_id, role |-> "user",
                          content |-> content, created_at |-> db.clock + 1]),
             !.clock = @ + 1]

\* PostgreSQLRepository.save_message.  created_at defaults to
\* CURRENT_TIMESTAMP; every statement is its own transaction (autocommit),
\* and the clock has moved on since the statement before it.
save_message(db, conversation_id, role, content) ==
  [db EXCEPT !.messages_table =
               Append(@, [conversation_id |-> conversation_id, role |-> role,
                          content |-> content, created_at |-> db.clock + 1]),
             !.clock = @ + 1]

\* Faulty variant of delete_conversation: DELETE without the WHERE clause.
delete_conversation_all(db, sid) ==
  [db EXCEPT !.conversations = {}, !.messages_table = <<>>]

\* PostgreSQLRepository.delete_conversation; the messages of the deleted
\* row go with it (ON DELETE CASCADE).
delete_conversation(db, sid) ==
  LET gone == {c.id : c \in {r \in db.conversations : r.session_id = sid}}
      stays(m) == m.conversation_id \notin gone
  IN [db EXCEPT !.conversations = {c \in @ : c.session_id # sid},
                !.messages_table = SelectSeq(@, stays)]

\* rows with `row` put after the last one that is not later than it
RECURSIVE insert_by_created_at(_, _)
insert_by_created_at(rows, row) ==
  IF rows = <<>> THEN <<row>>
  ELSE IF Last(rows).created_at <= row.created_at THEN Append(rows, row)
  ELSE Append(insert_by_created_at(SubSeq(rows, 1, Len(rows) - 1), row), Last(rows))

\* Faulty variant of the ordering: ORDER BY m.created_at DESC.
RECURSIVE order_by_created_at_desc(_)
order_by_created_at_desc(rows) ==
  IF rows = <<>> THEN <<>>
  ELSE LET sorted == insert_by_created_at(
                       order_by_created_at_desc(SubSeq(rows, 1, Len(rows) - 1)), Last(rows))
       IN [i \in 1..Len(sorted) |-> sorted[Len(sorted) + 1 - i]]

\* ORDER BY m.created_at ASC
RECURSIVE order_by_created_at(_)
order_by_created_at(rows) ==
  IF rows = <<>> THEN <<>>
  ELSE insert_by_created_at(order_by_created_at(SubSeq(rows, 1, Len(rows) - 1)), Last(rows))

\* PostgreSQLRepository.get_conversation_history
get_conversation_history(db, sid, limit) ==
  LET joined(m) == \E c \in db.conversations :
                      c.id = m.conversation_id /\ c.session_id = sid
      ordered == order_by_created_at(SelectSeq(db.messages_table, joined))
      n == IF limit < Len(ordered) THEN limit ELSE Len(ordered)
  IN [i \in 1..n |-> [role |-> ordered[i].role, content |-> ordered[i].content,
                      created_at |-> ordered[i].created_at]]

\* Faulty variant of the handler: the exception leaves _save_to_history.
uncaught(failed_at) == [raised |-> failed_at # "none", warned |-> FALSE]

\* except Exception as e: print(...) -- nothing is raised, a warning is
\* printed when a statement failed.
caught(failed_at) == [raised |-> FALSE, warned |-> failed_at # "none"]

\* Neo4jQueryService._save_to_history; `fault` names the statement that
\* raises if it is executed ("none": no failure).  Every statement is
\* autocommitted, so what ran before the failing one stays.
save_to_history(db, sid, question, result, fault) ==
  LET found == get_conversation_id(db, sid)
      created == IF found = 0 THEN create_conversation(db, sid)
                 ELSE [db |-> db, id |-> found]
      d1 == save_message(created.db, created.id, "user", question)
      with_answer == result.messages # <<>> /\ Last(result.messages).type = "ai"
      d2 == IF with_answer
              THEN save_message(d1, created.id, "assistant", Last(result.messages).content)
              ELSE d1
      failed_at == CASE fault = "get_conversation_id" -> fault
                     [] fault = "create_conversation" /\ found = 0 -> fault
                     [] fault = "save_user" -> fault
                     [] fault = "save_assistant" /\ with_answer -> fault
                     [] OTHER -> "none"
      reached == CASE failed_at \in {"get_conversation_id", "create_conversation"} -> db
                   [] failed_at = "save_user" -> created.db
                   [] failed_at = "save_assistant" -> d1
                   [] OTHER -> d2
      handled == caught(failed_at)
  IN [db |-> reached, failed_at |-> failed_at, raised |-> handled.raised,
      warned |-> handled.warned]

\* Tool texts of more than 300 characters (here: the listing of many rows).
LongTexts == {"rows_long"}

\* msg.content[:300] + "..." if len(msg.content) > 300 else msg.content
preview(content) == IF content \in LongTexts THEN content \o "..." ELSE content

RECURSIVE conversation_of(_)
conversation_of(messages) ==
  IF messages = <<>> THEN <<>>
  ELSE LET msg == Head(messages)
           rest == conversation_of(Tail(messages))
       IN CASE msg.type = "human" -> <<[role |-> "user", content |-> msg.content]>> \o rest
            [] msg.type = "ai" /\ msg.tool_calls = <<>> ->
                 <<[role |-> "assistant", content |-> msg.content]>> \o rest
            [] msg.type = "tool" ->
                 <<[role |-> "tool", content |-> preview(msg.content)]>> \o rest
            [] OTHER -> rest

\* Faulty variant of the tool-call listing: later requests are listed first.
RECURSIVE tool_calls_of_newest_first(_)
tool_calls_of_newest_first(messages) ==
  IF messages = <<>> THEN <<>>
  ELSE LET msg == Head(messages)
           k == Len(msg.tool_calls)
           own == IF msg.type = "ai"
                    THEN [j \in 1..k |->
                            [tool |-> msg.tool_calls[k + 1 - j].name,
                             args |-> msg.tool_calls[k + 1 - j].args]]
                    ELSE <<>>
       IN tool_calls_of_newest_first(Tail(messages)) \o own

\* the tool_calls list of _format_result: every request of every AI message
RECURSIVE tool_calls_of(_)
tool_calls_of(messages) ==
  IF messages = <<>> THEN <<>>
  ELSE LET msg == Head(messages)
           own == IF msg.type = "ai"
                    THEN [j \in 1..Len(msg.tool_calls) |->
                            [tool |-> msg.tool_calls[j].name, args |-> msg.tool_calls[j].args]]
                    ELSE <<>>
       IN own \o tool_calls_of(Tail(messages))

\* Neo4jQueryService._format_result
format_result(result, sid) ==
  LET messages == result.messages IN
  [session_id |-> sid,
   question |-> IF messages # <<>> THEN messages[1].content ELSE "",
   answer |-> IF messages # <<>> THEN Last(messages).content ELSE "",
   conversation |-> conversation_of(messages),
   tool_calls |-> tool_calls_of(messages)]

NoBundle == [session_id |-> "", question |-> "", answer |-> "",
             conversation |-> <<>>, tool_calls |-> <<>>]

\* ------------------------------------------------------------------- Init
\* A newly constructed service whose max_iterations is one of `ceilings`.
Fresh(ceilings) ==
  /\ max_iterations \in ceilings
  /\ vector_store \in BOOLEAN
  /\ memory = [t \in Threads |-> AgentState]
  /\ state = AgentState
  /\ pc = "idle"
  /\ session_id = ""
  /\ conversations = {}
  /\ conv_seq = 0
  /\ messages_table = <<>>
  /\ clock = 0
  /\ saveReport = [failed_at |-> "none", warned |-> FALSE]
  /\ bundle = NoBundle
  /\ terminationReason = "none"
  /\ asks = 0
  /\ askQuestion = ""
  /\ askSession = None
  /\ llmInput = <<>>
  /\ modelCalls = 0
  /\ toolDispatches = 0
  /\ allToolTurns = TRUE
  /\ lastDispatch = <<>>
  /\ lastResult = [t \in Threads |-> <<>>]
  /\ priorResult = <<>>
  /\ turns = <<>>
  /\ other = local

\* No function is called on its own.
NoCall ==
  /\ callArgs = [op |-> "none"]
  /\ callResult = [done |-> FALSE, value |-> <<>>]

Init == Fresh(0..MaxCeiling) /\ NoCall

\* ---------------------------------------------------------------- actions
\* Neo4jQueryService.query, up to the start of the graph run: the session id
\* is the argument or a generated one; invoke folds the question into the
\* thread's checkpoint and the graph enters at the agent node.
Ask(question, sid, uuid) ==
  /\ pc \in {"idle", "raised"}
  /\ asks < MaxAsks
  /\ sid = None => memory[uuid] = AgentState   \* a generated id is a new one
  /\ LET id == IF sid = None THEN uuid ELSE sid
         st == invoke(question, id, memory[id])
     IN /\ session_id' = id
        /\ state' = st
        /\ memory' = [memory EXCEPT ![id] = st]
        /\ priorResult' = lastResult[id]
  /\ pc' = "agent"
  /\ asks' = asks + 1
  /\ askQuestion' = question
  /\ askSession' = sid
  /\ terminationReason' = "none"
  /\ modelCalls' = 0
  /\ toolDispatches' = 0
  /\ allToolTurns' = TRUE
  /\ lastDispatch' = <<>>
  /\ llmInput' = <<>>
  /\ turns' = <<>>
  /\ callArgs' = [op |-> "query"]
  /\ callResult' = [done |-> FALSE, value |-> <<>>]
  /\ UNCHANGED <<config, other, store, bundle, lastResult>>

\* The agent node and the conditional edge after it; r is the model's answer.
AgentNode(r) ==
  /\ pc = "agent"
  /\ LET response == Response(r, state.messages)
         st == apply_update(state, agent_node(state, response))
         route == should_continue(st, max_iterations)
     IN /\ state' = st
        /\ memory' = [memory EXCEPT ![session_id] = st]
        /\ pc' = route.edge
        /\ terminationReason' = route.reason
        /\ allToolTurns' = (allToolTurns /\ response.tool_calls # <<>>)
  /\ llmInput' = state.messages
  /\ modelCalls' = modelCalls + 1
  /\ turns' = Append(turns, r)
  /\ UNCHANGED <<direct, config, other, store, session_id, bundle, asks, askQuestion, askSession,
                 toolDispatches, lastDispatch, lastResult, priorResult>>

\* The tools node and the edge back to the agent node; g and v are what the
\* graph store and the vector store do while the batch runs.
ToolsNode(g, v) ==
  /\ pc = "tools"
  /\ LET out == tool_node(state, get_tools(vector_store), g, v)
         st == apply_update(state, [messages |-> out.messages])
     IN /\ lastDispatch' = [request |-> Last(state.messages), graph |-> g, vector |-> v,
                            raised |-> out.raised, results |-> out.messages]
        /\ IF out.raised
             THEN /\ pc' = "raised"
                  /\ UNCHANGED <<state, memory>>
             ELSE /\ pc' = "agent"
                  /\ state' = st
                  /\ memory' = [memory EXCEPT ![session_id] = st]
  /\ toolDispatches' = toolDispatches + 1
  /\ UNCHANGED <<direct, config, other, store, session_id, bundle, terminationReason, asks, askQuestion,
                 askSession, llmInput, modelCalls, allToolTurns, lastResult, priorResult,
                 turns>>

\* Neo4jQueryService.query after the graph run: _save_to_history, then the
\* bundle of _format_result is returned.
Finish(fault) ==
  /\ pc = "end"
  /\ LET saved == save_to_history(db_now, session_id, askQuestion, state, fault)
     IN /\ conversations' = saved.db.conversations
        /\ conv_seq' = saved.db.conv_seq
        /\ messages_table' = saved.db.messages_table
        /\ clock' = saved.db.clock
        /\ saveReport' = [failed_at |-> saved.failed_at, warned |-> saved.warned]
        /\ IF saved.raised
             THEN /\ pc' = "raised"
                  /\ UNCHANGED bundle
             ELSE /\ pc' = "idle"
                  /\ bundle' = format_result(state, session_id)
  /\ lastResult' = [lastResult EXCEPT ![session_id] = state.messages]
  /\ UNCHANGED <<direct, config, other, memory, state, session_id, terminationReason, asks,
                 askQuestion, askSession, llmInput, modelCalls, toolDispatches,
                 allToolTurns, lastDispatch, priorResult, turns>>

\* The scheduler turns from one caller to the other: nothing in query()
\* or invoke() takes a lock or looks for a run in progress.
Switch ==
  /\ other' = local
  /\ pc' = other.pc
  /\ state' = other.state
  /\ session_id' = other.session_id
  /\ askQuestion' = other.askQuestion
  /\ askSession' = other.askSession
  /\ terminationReason' = other.terminationReason
  /\ llmInput' = other.llmInput
  /\ modelCalls' = other.modelCalls
  /\ toolDispatches' = other.toolDispatches
  /\ allToolTurns' = other.allToolTurns
  /\ lastDispatch' = other.lastDispatch
  /\ priorResult' = other.priorResult
  /\ turns' = other.turns
  /\ UNCHANGED <<direct, config, store, memory, bundle, asks, lastResult>>

\* the graph run and the store are left as they are
run == <<memory, state, pc, session_id, bundle, terminationReason, asks, askQuestion,
         askSession, llmInput, modelCalls, toolDispatches, allToolTurns, lastDispatch,
         lastResult, priorResult, turns>>

\* PostgreSQLRepository.create_conversation called on its own.
CreateConversation(sid) ==
  /\ pc \in {"idle", "raised"}
  /\ conv_seq < MaxSerial
  /\ LET out == create_conversation(db_now, sid)
     IN /\ conversations' = out.db.conversations
        /\ conv_seq' = out.db.conv_seq
        /\ messages_table' = out.db.messages_table
        /\ clock' = out.db.clock
        /\ callArgs' = [op |-> "create_conversation", session_id |-> sid,
                        existed |-> get_conversation_id(db_now, sid) # 0]
        /\ callResult' = [done |-> TRUE, value |-> out.id]
  /\ UNCHANGED <<config, other, run, saveReport>>

\* Neo4jQueryService.delete_session; the result notes how many messages
\* rows went.
DeleteSession(sid) ==
  /\ pc \in {"idle", "raised"}
  /\ LET out == delete_conversation(db_now, sid)
     IN /\ conversations' = out.conversations
        /\ conv_seq' = out.conv_seq
        /\ messages_table' = out.messages_table
        /\ clock' = out.clock
        /\ callArgs' = [op |-> "delete_session", session_id |-> sid]
        /\ callResult' = [done |-> TRUE,
                          value |-> [removed |-> Len(messages_table) - Len(out.messages_table)]]
  /\ UNCHANGED <<config, other, run, saveReport>>

\* get_conversation_history(session_id, limit: int = 50)
DefaultLimit == 50
Limits == {1, DefaultLimit}

\* PostgreSQLRepository.get_conversation_history; the service's
\* get_conversation_history is the call with the default limit.
\* `after_delete`: the call before it was delete_session of the same id,
\* which took `removed` messages rows.
History(sid, limit) ==
  /\ pc \in {"idle", "raised"}
  /\ LET after_delete == callArgs.op = "delete_session" /\ callArgs.session_id = sid
     IN callArgs' = [op |-> "history", session_id |-> sid, limit |-> limit,
                     after_delete |-> after_delete,
                     removed |-> IF after_delete THEN callResult.value.removed ELSE 0]
  /\ callResult' = [done |-> TRUE, value |-> get_conversation_history(db_now, sid, limit)]
  /\ UNCHANGED <<config, other, run, store>>

\* ------------------------------------------------------- the specification
\* What the model answers: a final answer, one tool call, or a batch of two
\* (one of them a name no tool has).
Responses ==
  { [content |-> "a1", calls |-> <<>>],
    [content |-> "", calls |-> <<"neo4j_cypher_query">>],
    [content |-> "", calls |-> <<"semantic_search", "no_such_tool">>] }

Next ==
  \/ \E question \in Questions, sid \in Threads \cup {None}, uuid \in GenIds :
       Ask(question, sid, uuid)
  \/ \E r \in Responses : AgentNode(r)
  \/ \E g \in {"rows"}, v \in {"hits"} : ToolsNode(g, v)
  \/ Finish("none")

Spec == Init /\ [][Next]_vars


\* One run of the loop on a new service, with every tool requested and the
\* stores free to fail.  A started run is carried on: the graph runtime
\* executes the next node as soon as the previous one has returned.
RunResponses ==
  Responses \cup
  { [content |-> "", calls |-> <<"neo4j_natural_language_query">>],
    [content |-> "", calls |-> <<"hybrid_search", "get_neo4j_schema">>] }

Faults == {"none", "get_conversation_id", "create_conversation", "save_user",
           "save_assistant"}

RunStep ==
  \/ \E r \in RunResponses : AgentNode(r)
  \/ \E g \in GraphOutcomes, v \in VectorOutcomes : ToolsNode(g, v)
  \/ \E fault \in Faults : Finish(fault)

RunNext ==
  \/ \E question \in Questions, sid \in Threads \cup {None}, uuid \in GenIds :
       asks = 0 /\ Ask(question, sid, uuid)
  \/ RunStep

RunSpec == Init /\ [][RunNext]_vars /\ WF_vars(RunStep)


\* One caller asking one session again and again, the stores up, under
\* ceilings large enough for a run to end before its ceiling.
TurnInit == Fresh(0..MaxTurns) /\ NoCall

TurnNext ==
  \/ Ask("q1", "s1", "u1")
  \/ \E r \in Responses : AgentNode(r)
  \/ ToolsNode("rows", "hits")
  \/ Finish("none")

TurnSpec == TurnInit /\ [][TurnNext]_vars


\* The service used like the interactive shell uses it, one command at a
\* time: questions, history listings and deletions of two sessions, each
\* run one model turn long, the relational store free to fail during the
\* save.  create_conversation is also called on its own.
StoreInit == Fresh({1}) /\ vector_store /\ NoCall

StoreNext ==
  \/ \E sid \in Threads : Ask("q1", sid, sid)
  \/ AgentNode([content |-> "a1", calls |-> <<>>])
  \/ \E fault \in Faults : Finish(fault)
  \/ \E sid \in Threads : CreateConversation(sid)
  \/ \E sid \in Threads : DeleteSession(sid)
  \/ \E sid \in Threads, limit \in Limits : History(sid, limit)

StoreSpec == StoreInit /\ [][StoreNext]_vars


\* Two callers of one service (or two processes over the same stores)
\* asking the same session, their steps interleaved in any order.
ConcurrentInit == Fresh({MaxCeiling}) /\ vector_store /\ NoCall

ConcurrentNext ==
  \/ \E question \in Questions : Ask(question, "s1", "s1")
  \/ \E r \in Responses : AgentNode(r)
  \/ ToolsNode("rows", "hits")
  \/ Finish("none")
  \/ Switch

ConcurrentSpec == ConcurrentInit /\ [][ConcurrentNext]_vars


\* Two callers at work on two sessions, their steps interleaved in any
\* order: questions, history listings and deletions, each run one model
\* turn long.
SessionsInit == Fresh({1}) /\ vector_store /\ NoCall

SessionsNext ==
  \/ \E sid \in Threads : Ask("q1", sid, sid)
  \/ AgentNode([content |-> "a1", calls |-> <<>>])
  \/ Finish("none")
  \/ \E sid \in Threads : DeleteSession(sid)
  \/ \E sid \in Threads : History(sid, DefaultLimit)
  \/ Switch

SessionsSpec == SessionsInit /\ [][SessionsNext]_vars


\* The neo4j_cypher_query tool called on its own, for result sets from empty
\* to longer than the preview, in either of two orders, and a failing store.
CypherInit ==
  /\ Fresh({MaxCeiling})
  /\ vector_store
  /\ \E n \in 0..(PreviewCount + MaxExtra), fails \in BOOLEAN, descending \in BOOLEAN :
       callArgs = [op |-> "neo4j_cypher_query", fails |-> fails,
                   rows |-> [i \in 1..n |-> IF descending THEN n + 1 - i ELSE i]]
  /\ callResult = [done |-> FALSE, value |-> <<>>]

Cypher ==
  /\ callArgs.op = "neo4j_cypher_query"
  /\ ~callResult.done
  /\ LET found == IF callArgs.fails THEN Raise ELSE Return(callArgs.rows)
     IN callResult' = [done |-> TRUE, value |-> neo4j_cypher_query_on(found).value]
  /\ UNCHANGED <<config, other, store, memory, state, pc, session_id, bundle,
                 terminationReason, asks, askQuestion, askSession, llmInput,
                 modelCalls, toolDispatches, allToolTurns, lastDispatch, lastResult,
                 priorResult, turns, callArgs>>

CypherNext == Cypher

CypherSpec == CypherInit /\ [][CypherNext]_vars


\* MilvusVectorStore.similarity_search called on its own, for every metric
\* type, store answer and threshold.
SeqsUpTo(S, n) == UNION {[1..k -> S] : k \in 0..n}

Metrics == {"COSINE", "L2", "IP"}

\* hit.distance values (in tenths) the store reports under a metric: a cosine
\* distance lies in [0, 2], an L2 distance is not negative, an inner product
\* has either sign.
StoreDistances(metric_type) ==
  CASE metric_type = "COSINE" -> {0, 2, 5, 6, 18, 20}
    [] metric_type = "L2"     -> {0, 4, 10, 30}
    [] OTHER                  -> {-20, -10, -5, 0, 5}

Thresholds == {<<1, 2>>, <<7, 10>>, <<9, 10>>}

\* the hits of a search whose distances are ds, in the store's order
Hits(ds) ==
  [i \in 1..Len(ds) |-> [text |-> "t" \o ToString(i), distance |-> ds[i],
                         metadata |-> [node_id |-> i]]]

SearchInit ==
  /\ Fresh({MaxCeiling})
  /\ vector_store
  /\ \E metric_type \in Metrics, score_threshold \in Thresholds, fails \in BOOLEAN :
       \E ds \in SeqsUpTo(StoreDistances(metric_type), MaxHits) :
         callArgs = [op |-> "similarity_search", metric_type |-> metric_type,
                     fails |-> fails, hits |-> Hits(ds),
                     score_threshold |-> score_threshold]
  /\ callResult = [done |-> FALSE, value |-> <<>>]

Search ==
  /\ callArgs.op = "similarity_search"
  /\ ~callResult.done
  /\ LET found == IF callArgs.fails THEN Raise ELSE Return(callArgs.hits)
         out == similarity_search_on(callArgs.metric_type, found,
                                     callArgs.score_threshold)
     IN callResult' = [done |-> TRUE, value |-> out.value]
  /\ UNCHANGED <<config, other, store, memory, state, pc, session_id, bundle,
                 terminationReason, asks, askQuestion, askSession, llmInput,
                 modelCalls, toolDispatches, allToolTurns, lastDispatch, lastResult,
                 priorResult, turns, callArgs>>

SearchNext == Search

SearchSpec == SearchInit /\ [][SearchNext]_vars


\* The hybrid_search tool called on its own, for every answer of the vector
\* store and every outcome of the graph store.
\* What one hit of the store can be: near or far from the query, its
\* metadata with or without a node_id.
HitKinds ==
  { [distance |-> 2, metadata |-> [node_id |-> 1]],
    [distance |-> 2, metadata |-> [node_id |-> 2]],
    [distance |-> 2, metadata |-> [source |-> "doc"]],
    [distance |-> 18, metadata |-> [node_id |-> 1]] }

HybridInit ==
  /\ Fresh({MaxCeiling})
  /\ vector_store
  /\ \E g \in GraphOutcomes, fails \in BOOLEAN, ks \in SeqsUpTo(HitKinds, MaxHits) :
       callArgs = [op |-> "hybrid_search", graph |-> g, fails |-> fails,
                   hits |-> [i \in 1..Len(ks) |->
                               [text |-> "t" \o ToString(i), distance |-> ks[i].distance,
                                metadata |-> ks[i].metadata]]]
  /\ callResult = [done |-> FALSE, value |-> <<>>]

Hybrid ==
  /\ callArgs.op = "hybrid_search"
  /\ ~callResult.done
  /\ LET found == IF callArgs.fails THEN Raise ELSE Return(callArgs.hits)
     IN callResult' = [done |-> TRUE, value |-> hybrid_search_on(found, callArgs.graph)]
  /\ UNCHANGED <<config, other, store, memory, state, pc, session_id, bundle,
                 terminationReason, asks, askQuestion, askSession, llmInput,
                 modelCalls, toolDispatches, allToolTurns, lastDispatch, lastResult,
                 priorResult, turns, callArgs>>

HybridNext == Hybrid

HybridSpec == HybridInit /\ [][HybridNext]_vars


\* ================================================================== claims
inRun == pc \in {"agent", "tools", "end"}
terminated == pc = "end"
\* an Ask has returned and no other has begun
returned == pc = "idle" /\ asks > 0

\* C1 as stated: for every max_iterations >= 0, iteration_count never
\* decreases during a run, never exceeds max_iterations, and when it equals
\* max_iterations at termination the run ended on the iteration ceiling.
C1_AsStated ==
  /\ [](state.iteration_count <= max_iterations)
  /\ []((terminated /\ state.iteration_count = max_iterations)
          => terminationReason = "iteration_ceiling")
  /\ [][inRun => state'.iteration_count >= state.iteration_count]_vars

\* C1 amended: the same for every max_iterations >= 1 (with a ceiling of 0
\* the entry node still makes one model call, so the count reaches 1).
C1_CeilingFromOne ==
  /\ [](max_iterations >= 1 => state.iteration_count <= max_iterations)
  /\ []((terminated /\ state.iteration_count = max_iterations)
          => terminationReason = "iteration_ceiling")
  /\ [][inRun => state'.iteration_count >= state.iteration_count]_vars

\* C1 witness: a run that made two model calls ends with the count at the ceiling.
C1_Witness ==
  /\ terminated
  /\ max_iterations = 2
  /\ state.iteration_count = 2
  /\ terminationReason = "iteration_ceiling"


Max(a, b) == IF a >= b THEN a ELSE b

\* C2 as stated: every run reaches its end, after at most max_iterations
\* model calls, on a response without tool calls or on the ceiling.
C2_AsStated ==
  /\ (pc = "agent") ~> terminated
  /\ [](modelCalls <= max_iterations)
  /\ [](terminated => \/ terminationReason = "iteration_ceiling"
                      \/ /\ terminationReason = "no_tool_call"
                         /\ Last(state.messages).tool_calls = <<>>)

\* C2 amended: every run reaches its end, after at most max(max_iterations, 1)
\* model calls, on a response without tool calls or on the ceiling.
C2_Terminates ==
  /\ (pc = "agent") ~> terminated
  /\ [](modelCalls <= Max(max_iterations, 1))
  /\ [](terminated => \/ terminationReason = "iteration_ceiling"
                      \/ /\ terminationReason = "no_tool_call"
                         /\ Last(state.messages).tool_calls = <<>>)

\* C2 witness: a run whose model asked for a tool on every turn has ended.
C2_Witness ==
  /\ terminated
  /\ allToolTurns
  /\ max_iterations >= 1
  /\ modelCalls = max_iterations

\* the run has ended (the Ask may or may not have returned yet)
runEnded == terminated \/ returned

\* C3: with a tool request on every turn and max_iterations = N >= 1 the run
\* makes exactly N model calls and N-1 tool dispatches, ends on the ceiling,
\* and its last message is the assistant message of turn N with its tool
\* calls (no tool message after it).
C3_CeilingRun ==
  (runEnded /\ allToolTurns /\ max_iterations >= 1)
    => /\ modelCalls = max_iterations
       /\ toolDispatches = max_iterations - 1
       /\ terminationReason = "iteration_ceiling"
       /\ Last(state.messages).type = "ai"
       /\ Last(state.messages).tool_calls # <<>>
       /\ Last(state.messages) = Last(memory[session_id].messages)

\* C3 witness: the scenario with N = 2.
C3_Witness ==
  /\ runEnded
  /\ allToolTurns
  /\ max_iterations = 2
  /\ toolDispatches = 1
  /\ Last(state.messages).tool_calls # <<>>

\* The termination reason the caller can read off the bundle.
surfaced_reason(b) ==
  IF "termination_reason" \in DOMAIN b THEN b.termination_reason ELSE "absent"

\* C4 as stated: the bundle an Ask returns carries the reason its run ended
\* for ("no_tool_call" or "iteration_ceiling").
C4_ReasonSurfaced ==
  returned => surfaced_reason(bundle) = terminationReason

\* the tools node has just run and the model has not been called again
justDispatched == pc = "agent" /\ toolDispatches >= 1 /\ modelCalls = toolDispatches

\* msgs ends with the request req followed by one tool message per tool
\* call of req, the i-th carrying the id of the i-th call
answered_at_end(msgs, req) ==
  LET k == Len(req.tool_calls)
      n == Len(msgs)
  IN /\ k >= 1
     /\ n > k
     /\ msgs[n - k] = req
     /\ \A i \in 1..k :
          /\ msgs[n - k + i].type = "tool"
          /\ msgs[n - k + i].tool_call_id = req.tool_calls[i].id

\* C5: after the dispatch of an assistant message with k >= 1 tool calls the
\* thread ends with that message followed by exactly k tool messages, the
\* i-th carrying the id of the i-th request, and that is what the next model
\* call receives.
C5_OneResultPerRequest ==
  /\ justDispatched => answered_at_end(state.messages, lastDispatch.request)
  /\ (toolDispatches >= 1 /\ modelCalls = toolDispatches + 1)
       => answered_at_end(llmInput, lastDispatch.request)

\* C5 witness: a batch of two requests has been dispatched.
C5_Witness ==
  /\ justDispatched
  /\ Len(lastDispatch.request.tool_calls) = 2

\* the tool messages of msgs that answer request id
answers(msgs, id) == {n \in 1..Len(msgs) : msgs[n].type = "tool" /\ msgs[n].tool_call_id = id}

\* C6 as stated: in the messages passed to any model call, every tool-call
\* request has exactly one tool result and every tool message answers an
\* earlier assistant tool call (read here for ceilings of at least 1).
C6_RequestsResolved ==
  max_iterations >= 1 =>
  /\ \A i \in 1..Len(llmInput) : \A j \in 1..Len(llmInput[i].tool_calls) :
       Cardinality(answers(llmInput, llmInput[i].tool_calls[j].id)) = 1
  /\ \A n \in 1..Len(llmInput) :
       llmInput[n].type = "tool" =>
         \E i \in 1..(n - 1) : \E j \in 1..Len(llmInput[i].tool_calls) :
           llmInput[i].tool_calls[j].id = llmInput[n].tool_call_id

\* C7: a request for a name that is not a registered tool does not fail the
\* run: its tool message carries the unknown-tool error text and the loop is
\* back at the model turn.
C7_UnknownTool ==
  (lastDispatch # <<>> /\ modelCalls = toolDispatches) =>
    LET req == lastDispatch.request
        k == Len(req.tool_calls)
        n == Len(state.messages)
    IN \A i \in 1..k :
         req.tool_calls[i].name \notin get_tools(vector_store) =>
           /\ pc = "agent"
           /\ n > k
           /\ state.messages[n - k + i] =
                ToolMessage("Error: " \o req.tool_calls[i].name \o " is not a valid tool",
                            req.tool_calls[i].id)

\* C7 witness: semantic_search was requested with no vector store configured.
C7_Witness ==
  /\ justDispatched
  /\ ~vector_store
  /\ lastDispatch.request.tool_calls[1].name = "semantic_search"
  /\ state.messages[Len(state.messages) - 1].content
       = "Error: semantic_search is not a valid tool"

FailureTexts ==
  {"query_failed", "schema_failed", "semantic_search_failed", "hybrid_search_failed"}

\* the store the tool reads failed while the tool ran
store_failed(name, g, v) ==
  CASE name = "semantic_search" -> v = "fail"
    [] name = "hybrid_search"   -> v = "fail" \/ (v = "hits" /\ g = "fail")
    [] OTHER                    -> g = "fail"

\* C8 as stated: no tool raises, and a tool whose store failed returns a
\* text that describes the failure, which becomes the tool result.
C8_FailureDescribed ==
  lastDispatch # <<>> =>
    /\ ~lastDispatch.raised
    /\ \A i \in 1..Len(lastDispatch.request.tool_calls) :
         LET name == lastDispatch.request.tool_calls[i].name IN
           (/\ name \in get_tools(vector_store)
            /\ store_failed(name, lastDispatch.graph, lastDispatch.vector))
             => lastDispatch.results[i].content \in FailureTexts

\* C9: the first model call of an Ask receives the thread's messages as the
\* previous Ask of that session left them, followed by the new question.
C9_Resumes ==
  modelCalls = 1 => llmInput = priorResult \o <<HumanMessage(askQuestion)>>

\* C9 witness: the first model call of a second Ask on a session.
C9_Witness ==
  /\ modelCalls = 1
  /\ Len(priorResult) >= 2
  /\ Len(llmInput) = Len(priorResult) + 1

\* C10 as stated: the returned bundle holds the question and the session id
\* of this call; an omitted session id is replaced by a new one.
C10_EchoesCall ==
  returned =>
    /\ bundle.question = askQuestion
    /\ askSession # None => bundle.session_id = askSession
    /\ askSession = None => (bundle.session_id \in GenIds /\ priorResult = <<>>)

\* the thread held no tool-call request when the Ask began
noPriorToolCalls == \A i \in 1..Len(priorResult) : priorResult[i].tool_calls = <<>>

\* the requests the model made over the answers ts, in the order made
RECURSIVE requests_of(_)
requests_of(ts) ==
  IF ts = <<>> THEN <<>>
  ELSE [j \in 1..Len(Head(ts).calls) |-> [tool |-> Head(ts).calls[j], args |-> "args"]]
         \o requests_of(Tail(ts))

\* an Ask has returned whose run was: at least one turn with tool calls, then
\* an answer without any, on a thread without earlier tool calls
toolsThenAnswer ==
  /\ returned
  /\ noPriorToolCalls
  /\ Len(turns) >= 2
  /\ Last(turns).calls = <<>>

\* what C11 promises of such an Ask
C11_Outcome ==
  /\ terminationReason = "no_tool_call"
  /\ bundle.tool_calls = requests_of(turns)
  /\ bundle.answer = Last(turns).content

\* C11 as stated: whenever the model turns are at most max_iterations
\* (k + 1 <= maxIterations), the Ask ends on the no-tool-call return, lists
\* exactly the k requests in issue order and answers with the final content.
C11_AsStated ==
  (toolsThenAnswer /\ Len(turns) <= max_iterations) => C11_Outcome

\* C11, amended: the same when the model turns stay below max_iterations; a
\* final answer given on turn max_iterations ends the run on the ceiling return.
C11_ToolsThenAnswer ==
  (toolsThenAnswer /\ Len(turns) < max_iterations) => C11_Outcome

C11_Witness ==
  /\ toolsThenAnswer
  /\ Len(turns) < max_iterations
  /\ Len(bundle.tool_calls) = 2
  /\ bundle.answer = "a1"


\* similarity_search has returned
searched == callArgs.op = "similarity_search" /\ callResult.done

InUnit(score) == score[1] >= 0 /\ score[1] <= score[2]

\* C12 as stated: whatever the metric type, the store's distances and the
\* threshold, every returned hit has a score within [0,1] and not below the
\* threshold.
C12_ScoresInUnit ==
  searched =>
    \A i \in 1..Len(callResult.value) :
      /\ InUnit(callResult.value[i].similarity)
      /\ AtLeast(callResult.value[i].similarity, callArgs.score_threshold)

\* a search under the cosine metric has returned what the store's hits gave
cosineSearched == searched /\ callArgs.metric_type = "COSINE" /\ ~callArgs.fails

\* (2 - d) / 2 of the i-th hit of the store
normalized(i) == <<20 - callArgs.hits[i].distance, 20>>

\* positions of the store's hits whose normalized similarity is >= threshold
retained ==
  {i \in 1..Len(callArgs.hits) :
     normalized(i)[1] * callArgs.score_threshold[2]
       >= callArgs.score_threshold[1] * normalized(i)[2]}

\* C13: under the cosine metric the result is exactly the store's hits whose
\* (2 - d) / 2 is at least the threshold, each with that value as its score,
\* in the store's order.
C13_CosineFilter ==
  cosineSearched =>
    /\ Len(callResult.value) = Cardinality(retained)
    /\ \E at \in [1..Len(callResult.value) -> retained] :
         /\ \A j, k \in DOMAIN at : j < k => at[j] < at[k]
         /\ \A j \in DOMAIN at :
              callResult.value[j] =
                [text |-> callArgs.hits[at[j]].text, similarity |-> normalized(at[j]),
                 metadata |-> callArgs.hits[at[j]].metadata]

\* distances [0.2, 0.5, 1.8] with threshold 0.7 gave [0.9, 0.75]
C13_Witness ==
  /\ cosineSearched
  /\ [i \in 1..Len(callArgs.hits) |-> callArgs.hits[i].distance] = <<2, 5, 18>>
  /\ callArgs.score_threshold = <<7, 10>>
  /\ [j \in 1..Len(callResult.value) |-> callResult.value[j].similarity]
       = << <<18, 20>>, <<15, 20>> >>

\* hybrid_search has returned
fused == callArgs.op = "hybrid_search" /\ callResult.done

\* the semantic step produced no entity id: no hit, or no hit with a node_id
noEntity ==
  \A i \in 1..Len(callResult.value.semantic_results) :
    "node_id" \notin DOMAIN callResult.value.semantic_results[i].metadata

\* C14: when the semantic step produced no entity id, hybrid search attempts
\* no graph query and its graph-edge list is empty.
C14_NoEntityNoQuery ==
  (fused /\ noEntity) =>
    /\ ~callResult.value.queried
    /\ callResult.value.graph_results = <<>>
    /\ callResult.value.output \in {"hybrid_empty", "hybrid_semantic"}

\* hits without a node_id, over a graph store that would have failed
C14_Witness ==
  /\ fused
  /\ noEntity
  /\ callResult.value.semantic_results # <<>>
  /\ callArgs.graph = "fail"
  /\ ~callResult.value.queried
  /\ callResult.value.output = "hybrid_semantic"

\* C15 as stated: when the semantic step gave hits and the graph query then
\* failed, the tool's result still holds the semantic hits, with no edges.
C15_SemanticKept ==
  (/\ fused
   /\ callResult.value.semantic_results # <<>>
   /\ callResult.value.queried
   /\ callArgs.graph = "fail")
    => callResult.value.output = "hybrid_semantic"

\* the messages rows logged under session s, in insertion order
messages_of(convs, table, s) ==
  LET logged(m) == \E c \in convs : c.session_id = s /\ c.id = m.conversation_id
  IN SelectSeq(table, logged)

IsPrefix(a, b) == Len(a) <= Len(b) /\ SubSeq(b, 1, Len(a)) = a

\* C16: every create_conversation for a session id, and every completed
\* save of an Ask on it, leaves exactly one conversations row with that id
\* and keeps the messages logged under it before.
C16_Idempotent ==
  [][\A s \in Threads :
       (CreateConversation(s) \/ (session_id = s /\ Finish("none")))
         => /\ Cardinality({c \in conversations' : c.session_id = s}) = 1
            /\ IsPrefix(messages_of(conversations, messages_table, s),
                        messages_of(conversations', messages_table', s))]_vars

\* create_conversation was called for a session that had a row and messages
C16_Witness ==
  /\ callArgs.op = "create_conversation"
  /\ callArgs.existed
  /\ Cardinality({c \in conversations : c.session_id = callArgs.session_id}) = 1
  /\ Len(messages_of(conversations, messages_table, callArgs.session_id)) >= 2

\* the rows of the two tables that belong to sessions other than s
others_of(convs, table, s) ==
  LET kept == {c \in convs : c.session_id # s}
      foreign(m) == \E c \in kept : c.id = m.conversation_id
  IN [conversations |-> kept, messages |-> SelectSeq(table, foreign)]

\* C17: a history read straight after delete_session of the same id returns
\* the empty list; every delete_session -- of a session with rows, of one
\* deleted before or of one never created -- returns without raising, leaves
\* no row of that session and leaves the rows of all other sessions as they
\* were.
C17_DeleteThenHistory ==
  /\ []((callArgs.op = "history" /\ callArgs.after_delete)
          => callResult.done /\ callResult.value = <<>>)
  /\ [][\A s \in Threads :
          DeleteSession(s)
            => /\ callResult'.done
               /\ pc' = pc
               /\ get_conversation_history(DB(conversations', conv_seq', messages_table',
                                              clock'), s, DefaultLimit) = <<>>
               /\ others_of(conversations', messages_table', s)
                    = others_of(conversations, messages_table, s)]_vars

\* a session with messages was deleted and its history read, while the
\* other session still has its messages
C17_Witness ==
  /\ callArgs.op = "history"
  /\ callArgs.after_delete
  /\ callArgs.removed >= 2
  /\ callResult.value = <<>>
  /\ messages_table # <<>>
  /\ get_conversation_id(db_now, callArgs.session_id) = 0

\* both callers are inside a graph run of the same session
twoRuns ==
  /\ inRun
  /\ other.pc \in {"agent", "tools", "end"}
  /\ other.session_id = session_id

\* C18 as stated: a session never has two agent runs in progress at once.
C18_OneRunPerSession == ~twoRuns

\* the save after the latest finished run hit a failing statement
saveFailed == saveReport.failed_at # "none" /\ pc \in {"idle", "raised"}

\* C19: when a statement of the transcript save fails -- the lookup of the
\* session, its creation or an insert -- Ask still returns the bundle with
\* the answer the run computed, and the failure is printed, not raised.
C19_AnswerSurvivesSave ==
  saveFailed =>
    /\ pc = "idle"
    /\ saveReport.warned
    /\ bundle.question = askQuestion
    /\ bundle.answer = Last(turns).content
    /\ bundle.session_id = session_id

\* the insert of the assistant message failed after the user message went in
C19_Witness ==
  /\ saveFailed
  /\ saveReport.failed_at = "save_assistant"
  /\ Len(messages_table) = 1
  /\ bundle.answer = "a1"
  /\ pc = "idle"

\* get_conversation_history has returned and nothing was called since
historyRead == callArgs.op = "history" /\ callResult.done

\* the messages appended to the session that was read, oldest first, as the
\* history lists a message
appended ==
  LET own == messages_of(conversations, messages_table, callArgs.session_id)
  IN [i \in 1..Len(own) |-> [role |-> own[i].role, content |-> own[i].content,
                             created_at |-> own[i].created_at]]

\* C20: a history read returns at most `limit` messages, all of the session
\* asked for, oldest first in the order they were appended.
C20_HistoryOrdered ==
  historyRead =>
    /\ Len(callResult.value) <= callArgs.limit
    /\ IsPrefix(callResult.value, appended)

\* a read cut by its limit, from a store that also holds another session
C20_Witness ==
  /\ historyRead
  /\ callArgs.limit = 1
  /\ Len(callResult.value) = 1
  /\ Len(appended) >= 2
  /\ Len(messages_table) > Len(appended)

\* neo4j_cypher_query has returned after a query the store answered
queried == callArgs.op = "neo4j_cypher_query" /\ callResult.done /\ ~callArgs.fails

\* C21: the tool lists at most 50 rows, the first ones in the store's order,
\* and answers an empty result set with its 'no results' text, not with its
\* failure text.
C21_BoundedPreview ==
  queried =>
    IF callArgs.rows = <<>>
      THEN callResult.value.text = "no_results"
      ELSE /\ callResult.value.text = "rows"
           /\ Len(callResult.value.rows) <= 50
           /\ Len(callResult.value.rows) >= 1
           /\ IsPrefix(callResult.value.rows, callArgs.rows)

\* a result set of 52 rows, listed down to its first 50
C21_Witness ==
  /\ queried
  /\ Len(callArgs.rows) = 52
  /\ callArgs.rows[1] = 52
  /\ Len(callResult.value.rows) = 50

\* the model has just answered and the edge after the agent node was taken
decided == pc \in {"tools", "end"} /\ turns # <<>>

\* C22: after each model call the ceiling is tested first and ends the run
\* whatever the response carries; below the ceiling a response with tool
\* calls goes to the tools node and one without ends the run; the tools node
\* always hands back to the agent node.
C22_EdgePriority ==
  /\ [](decided =>
          IF state.iteration_count >= max_iterations
            THEN pc = "end" /\ terminationReason = "iteration_ceiling"
            ELSE IF Last(turns).calls # <<>>
              THEN pc = "tools"
              ELSE pc = "end" /\ terminationReason = "no_tool_call")
  /\ [][pc = "tools" => pc' = "agent"]_vars

\* after a dispatch, a response with tool calls met the ceiling and ended
\* the run
C22_Witness ==
  /\ decided
  /\ toolDispatches >= 1
  /\ state.iteration_count >= max_iterations
  /\ Last(turns).calls # <<>>
  /\ pc = "end"

\* C23 as stated: the entity ids hybrid search hands to the graph query are
\* the node ids of the semantic hits, each once, in first-seen order.
C23_DistinctEntityIds ==
  fused =>
    LET ids == callResult.value.entity_ids
        hits == callResult.value.semantic_results
        seen == {hits[i].metadata.node_id :
                   i \in {j \in 1..Len(hits) : "node_id" \in DOMAIN hits[j].metadata}}
        first(n) == CHOOSE i \in 1..Len(hits) :
                      /\ "node_id" \in DOMAIN hits[i].metadata
                      /\ hits[i].metadata.node_id = n
                      /\ \A j \in 1..(i - 1) :
                           "node_id" \in DOMAIN hits[j].metadata
                             => hits[j].metadata.node_id # n
    IN /\ {ids[k] : k \in 1..Len(ids)} = seen
       /\ \A k, l \in 1..Len(ids) : k < l => first(ids[k]) < first(ids[l])

\* C24 as stated: once delete_session has returned, neither the transcript
\* rows nor the checkpointed state of the session remain, so that the next
\* Ask on it would start from an empty thread.
C24_DeletedEverywhere ==
  (callArgs.op = "delete_session" /\ callResult.done)
    => /\ messages_of(conversations, messages_table, callArgs.session_id) = <<>>
       /\ get_conversation_id(db_now, callArgs.session_id) = 0
       /\ memory[callArgs.session_id].messages = <<>>

\* the step is one of an Ask, a history read or a deletion on session a
stepOn(a) ==
  \/ \E question \in Questions : Ask(question, a, a)
  \/ /\ session_id = a
     /\ \/ \E r \in Responses : AgentNode(r)
        \/ \E g \in GraphOutcomes, v \in VectorOutcomes : ToolsNode(g, v)
        \/ \E fault \in Faults : Finish(fault)
  \/ DeleteSession(a)
  \/ \E limit \in Limits : History(a, limit)

\* C25: a step of an Ask, a history read or a deletion on one session leaves
\* the checkpointed messages and the transcript rows of every other session
\* as they were, however the callers' steps interleave.
C25_SessionsIndependent ==
  [][\A a, b \in Threads :
       (a # b /\ stepOn(a))
         => /\ memory'[b] = memory[b]
            /\ messages_of(conversations', messages_table', b)
                 = messages_of(conversations, messages_table, b)
            /\ {c \in conversations' : c.session_id = b}
                 = {c \in conversations : c.session_id = b}]_vars

\* one session was deleted with its messages while the other caller was in
\* the middle of an Ask on the other session, its run done and not yet saved
C25_Witness ==
  /\ callArgs.op = "delete_session"
  /\ callResult.value.removed >= 2
  /\ other.pc = "end"
  /\ other.session_id # callArgs.session_id
  /\ memory[other.session_id].messages # <<>>

\* no Ask is between its run and its return
atRest == pc \in {"idle", "raised"}

\* C26 as stated (for a ceiling of at least 1): the transcript never holds
\* half a turn -- its rows come in pairs, a user row and then the assistant
\* row of the same conversation.
C26_WholeTurns ==
  (atRest /\ max_iterations >= 1) =>
    /\ Len(messages_table) % 2 = 0
    /\ \A i \in 1..Len(messages_table) :
         IF i % 2 = 1
           THEN messages_table[i].role = "user"
           ELSE /\ messages_table[i].role = "assistant"
                /\ messages_table[i].conversation_id
                     = messages_table[i - 1].conversation_id

\* C27: the save of an Ask in which no statement fails appends exactly two
\* rows to the transcript of its session: the user row with the question of
\* that Ask, then the assistant row with the content of the run's last
\* message; nothing else of the run is written.
C27_TwoRecords ==
  [][\A fault \in Faults :
       (Finish(fault) /\ saveReport'.failed_at = "none")
         => LET n == Len(messages_table)
                id == get_conversation_id(
                        DB(conversations', conv_seq', messages_table', clock'), session_id)
            IN /\ Len(messages_table') = n + 2
               /\ SubSeq(messages_table', 1, n) = messages_table
               /\ id # 0
               /\ messages_table'[n + 1].conversation_id = id
               /\ messages_table'[n + 1].role = "user"
               /\ messages_table'[n + 1].content = askQuestion
               /\ messages_table'[n + 2].conversation_id = id
               /\ messages_table'[n + 2].role = "assistant"
               /\ messages_table'[n + 2].content = Last(turns).content]_vars

\* a second Ask that ran a tool and ended on the ceiling with a request
\* still open has been saved: four rows, the last one with the empty content
\* of that request
C27_Witness ==
  /\ returned
  /\ asks = 2
  /\ toolDispatches >= 1
  /\ terminationReason = "iteration_ceiling"
  /\ Last(turns).calls # <<>>
  /\ Len(messages_table) = 4
  /\ messages_table[4].role = "assistant"
  /\ messages_table[4].content = ""

\* an Ask on a session that an earlier Ask has used
laterAsk == asks >= 1 /\ priorResult # <<>>

\* the budget is counted from zero in every Ask: the count in the state is
\* the number of model calls of this run, and a returned Ask made one at least
perRunCount ==
  /\ (pc = "agent" /\ modelCalls = 0) => state.iteration_count = 0
  /\ inRun => state.iteration_count = modelCalls
  /\ returned => modelCalls >= 1

\* C28 as stated: every Ask on an existing session starts at iteration count
\* 0 and makes at least one and at most max_iterations model calls.
C28_AsStated ==
  laterAsk => (perRunCount /\ modelCalls <= max_iterations)

\* C28, amended: the same with at most max(max_iterations, 1) model calls;
\* under a ceiling of 0 the entry node still calls the model once.
C28_PerRunBudget ==
  laterAsk => (perRunCount /\ modelCalls <= Max(max_iterations, 1))

\* a later Ask begins at count 0 on a thread whose checkpoint held the count
\* of a run that ended on the ceiling
C28_Witness ==
  /\ laterAsk
  /\ pc = "agent"
  /\ modelCalls = 0
  /\ state.iteration_count = 0
  /\ max_iterations >= 2
  /\ Last(priorResult).tool_calls # <<>>

\* a dispatch over a vector store whose embedding or search failed
vectorFailed == lastDispatch # <<>> /\ vector_store /\ lastDispatch.vector = "fail"

\* the tool messages the same request gets when the search has zero hits
zeroHitResults ==
  tool_node([messages |-> <<lastDispatch.request>>], get_tools(vector_store),
            lastDispatch.graph, "none").messages

\* C29: similarity_search never raises; when the embedding or the vector
\* store fails it returns [], so semantic_search answers its "no related
\* content" text and hybrid_search queries no graph (a failing graph store
\* goes unnoticed); the tool results equal those of a search with zero hits.
C29_FailureAsNoHits ==
  vectorFailed =>
    /\ ~similarity_search(lastDispatch.vector).raised
    /\ similarity_search(lastDispatch.vector).value = <<>>
    /\ ~hybrid_search_on(collection_search(lastDispatch.vector), lastDispatch.graph).queried
    /\ ~lastDispatch.raised
    /\ lastDispatch.results = zeroHitResults
    /\ \A i \in 1..Len(lastDispatch.request.tool_calls) :
         LET name == lastDispatch.request.tool_calls[i].name IN
           /\ name = "semantic_search" => lastDispatch.results[i].content = "not_found"
           /\ name = "hybrid_search" => lastDispatch.results[i].content = "hybrid_empty"

\* hybrid_search over a failed vector store and a failing graph store answers
\* as if nothing was found
C29_Witness ==
  /\ vectorFailed
  /\ lastDispatch.graph = "fail"
  /\ lastDispatch.request.tool_calls[1].name = "hybrid_search"
  /\ lastDispatch.results[1].content = "hybrid_empty"

=============================================================================
